---- MODULE Spec2Model ----
(***************************************************************************)
(* NetworkModuleOFT (extensions-builtin/Lora/network_oft.py): the          *)
(* orthogonal fine-tuning adapter.  An adapter is constructed from the     *)
(* tensors of an adapter file and a host layer, and is then asked for its  *)
(* rotation (get_weight) or for the merged weight (calc_updown).           *)
(*                                                                         *)
(* Numbers are exact rationals <<n, d>> (d > 0, lowest terms); <<0, 0>>    *)
(* is the non-finite value a division by zero produces.  A matrix is a     *)
(* sequence of rows, a stack of blocks a sequence of matrices.  The only   *)
(* rounded operation is the square root inside torch.norm, which is        *)
(* rounded to the nearest multiple of 1 / NormPrecision.                   *)
(***************************************************************************)
EXTENDS Integers, Sequences, FiniteSets, TLC

\* ------------------------------------------------------------ bounds

\* Entries of the adapter file's oft_blocks are drawn from 0..MaxEntry.
MaxEntry == 1

\* The source adds 1e-8 to numerator and denominator of the rescale factor.
\* The model keeps it a positive rational 1 / EpsDen; 10^8 is out of reach
\* of the model checker's 32-bit integers once the factor is squared.
EpsDen == 10

\* torch.norm's square root is rounded to a multiple of 1 / NormPrecision.
NormPrecision == 10

\* ------------------------------------------------------------ rationals

Abs(n) == IF n < 0 THEN -n ELSE n

RECURSIVE GCD(_, _)
GCD(a, b) == IF b = 0 THEN a ELSE GCD(b, a % b)

NaN == <<0, 0>>

IsFinite(x) == x[2] # 0

Rat(n, d) ==
    IF d = 0 THEN NaN
    ELSE LET g == GCD(Abs(n), Abs(d))
             s == IF d < 0 THEN -1 ELSE 1
         IN  <<(s * n) \div g, (s * d) \div g>>

Num(n) == <<n, 1>>

Zero == Num(0)

One == Num(1)

\* Sums and comparisons go through the least common denominator and
\* products cancel across the fraction bars first, which keeps the
\* intermediate integers small.
RAdd(x, y) ==
    IF IsFinite(x) /\ IsFinite(y)
    THEN LET g == GCD(x[2], y[2])
         IN  Rat(x[1] * (y[2] \div g) + y[1] * (x[2] \div g),
                 (x[2] \div g) * y[2])
    ELSE NaN

RNeg(x) == IF IsFinite(x) THEN <<-x[1], x[2]>> ELSE NaN

RSub(x, y) == RAdd(x, RNeg(y))

RMul(x, y) ==
    IF IsFinite(x) /\ IsFinite(y)
    THEN LET g1 == GCD(Abs(x[1]), y[2])
             g2 == GCD(Abs(y[1]), x[2])
         IN  Rat((x[1] \div g1) * (y[1] \div g2),
                 (x[2] \div g2) * (y[2] \div g1))
    ELSE NaN

\* 1 / y; non-finite for y = 0.
RInv(y) ==
    IF ~IsFinite(y) \/ y[1] = 0 THEN NaN
    ELSE IF y[1] < 0 THEN <<-y[2], -y[1]>> ELSE <<y[2], y[1]>>

RDiv(x, y) == RMul(x, RInv(y))

RLe(x, y) ==
    /\ IsFinite(x) /\ IsFinite(y)
    /\ LET g == GCD(x[2], y[2])
       IN  x[1] * (y[2] \div g) <= y[1] * (x[2] \div g)

RLt(x, y) ==
    /\ IsFinite(x) /\ IsFinite(y)
    /\ LET g == GCD(x[2], y[2])
       IN  x[1] * (y[2] \div g) < y[1] * (x[2] \div g)

RECURSIVE ISqrtIn(_, _, _)
\* The largest k in lo..hi with k * k <= n (lo * lo <= n).
ISqrtIn(n, lo, hi) ==
    IF lo = hi THEN lo
    ELSE LET mid == (lo + hi + 1) \div 2
         IN  IF mid * mid <= n THEN ISqrtIn(n, mid, hi)
             ELSE ISqrtIn(n, lo, mid - 1)

ISqrt(n) == ISqrtIn(n, 0, IF n < 46340 THEN n ELSE 46340)

\* The square root of a rational x >= 0, rounded to the nearest multiple of
\* 1 / NormPrecision (exact when the root is such a multiple).
RSqrt(x) ==
    IF ~IsFinite(x) THEN NaN
    ELSE LET scaled == RMul(x, Num(NormPrecision * NormPrecision))
             k      == ISqrt(scaled[1] \div scaled[2])
             below  == RSub(scaled, Num(k * k))
             above  == RSub(Num((k + 1) * (k + 1)), scaled)
         IN  IF RLt(above, below) THEN Rat(k + 1, NormPrecision)
             ELSE Rat(k, NormPrecision)

Eps == Rat(1, EpsDen)

\* ------------------------------------------------------------ tensors

Rows(M) == Len(M)

Cols(M) == IF Len(M) = 0 THEN 0 ELSE Len(M[1])

Shape(M) == <<Rows(M), Cols(M)>>

\* torch's broadcasting rule for one dimension; -1 when the sizes clash.
BroadcastDim(a, b) ==
    IF a = b THEN a ELSE IF a = 1 THEN b ELSE IF b = 1 THEN a ELSE -1

Broadcastable(A, B) ==
    /\ BroadcastDim(Rows(A), Rows(B)) # -1
    /\ BroadcastDim(Cols(A), Cols(B)) # -1

\* Entry [i][j] of M as seen through broadcasting: a dimension of size 1 is
\* repeated.
At(M, i, j) ==
    M[IF Rows(M) = 1 THEN 1 ELSE i][IF Cols(M) = 1 THEN 1 ELSE j]

\* The function f on 1..n as the sequence <<f[1], ..., f[n]>>, and a
\* function of functions as a sequence of rows: tensors are held as values,
\* not as expressions.
AsSeq(f) == f \o <<>>

AsMatrix(F) == AsSeq([i \in DOMAIN F |-> AsSeq(F[i])])

\* A + B and A - B of two broadcastable matrices.
MatAdd(A, B) ==
    AsMatrix([i \in 1..BroadcastDim(Rows(A), Rows(B)) |->
                [j \in 1..BroadcastDim(Cols(A), Cols(B)) |->
                    RAdd(At(A, i, j), At(B, i, j))]])

MatSub(A, B) ==
    AsMatrix([i \in 1..BroadcastDim(Rows(A), Rows(B)) |->
                [j \in 1..BroadcastDim(Cols(A), Cols(B)) |->
                    RSub(At(A, i, j), At(B, i, j))]])

MatScale(s, A) ==
    AsMatrix([i \in 1..Rows(A) |-> [j \in 1..Cols(A) |-> RMul(s, A[i][j])]])

Transpose(A) ==
    AsMatrix([i \in 1..Cols(A) |-> [j \in 1..Rows(A) |-> A[j][i]]])

RECURSIVE RSum(_, _)
\* f[1] + ... + f[n]
RSum(f, n) == IF n = 0 THEN Zero ELSE RAdd(RSum(f, n - 1), f[n])

MatMul(A, B) ==
    AsMatrix([i \in 1..Rows(A) |->
                [j \in 1..Cols(B) |->
                    RSum([k \in 1..Cols(A) |-> RMul(A[i][k], B[k][j])],
                         Cols(A))]])

Eye(n) ==
    AsMatrix([i \in 1..n |-> [j \in 1..n |-> IF i = j THEN One ELSE Zero]])

\* M without row r and column c.
Minor(M, r, c) ==
    AsMatrix([i \in 1..(Rows(M) - 1) |->
                [j \in 1..(Cols(M) - 1) |->
                    M[IF i < r THEN i ELSE i + 1][IF j < c THEN j ELSE j + 1]]])

RECURSIVE Det(_)
\* Determinant by expansion along the first row.
Det(M) ==
    IF Rows(M) = 0 THEN One
    ELSE RSum([c \in 1..Cols(M) |->
                  RMul(IF c % 2 = 1 THEN M[1][c] ELSE RNeg(M[1][c]),
                       Det(Minor(M, 1, c)))],
              Cols(M))

Singular(M) == Det(M) = Zero

\* The inverse of a non-singular square matrix: adjugate over determinant.
Inverse(M) ==
    LET det == Det(M)
    IN  AsMatrix([i \in 1..Rows(M) |->
                    [j \in 1..Cols(M) |->
                        RDiv(RMul(IF (i + j) % 2 = 0 THEN One ELSE RNeg(One),
                                  Det(Minor(M, j, i))),
                             det)]])

\* The sum of the squares of all entries of a stack of matrices.
SumSq(T) ==
    RSum([b \in 1..Len(T) |->
            RSum([i \in 1..Rows(T[b]) |->
                    RSum([j \in 1..Cols(T[b]) |-> RMul(T[b][i][j], T[b][i][j])],
                         Cols(T[b]))],
                 Rows(T[b]))],
         Len(T))

\* ------------------------------------------------------------ inputs

Entries == 0..MaxEntry

LowerEntries == {0, 1}

\* The b x b blocks an adapter file may hold: u above the diagonal and on
\* it, l below it (in general neither symmetric nor antisymmetric).
BlockFamily(b) ==
    {AsMatrix([i \in 1..b |-> [j \in 1..b |-> Num(IF i > j THEN l ELSE u)]]) :
        u \in Entries, l \in LowerEntries}

NumBlocks == {1, 2}

BlockSizes == {1, 2}

OutDims == {1, 2, 3, 4}

InDims == {1, 2, 4}

Alphas == {Rat(1, 4), One}

Multipliers == {Zero, Rat(1, 2), One}

WeightSeeds == {1}

\* The weight of a Linear layer with out_features = o and in_features = i:
\* s, 2s, 3s, ... row by row, less 2.
LayerWeight(o, i, s) ==
    AsMatrix([r \in 1..o |-> [c \in 1..i |-> Num(s * ((r - 1) * i + c) - 2)]])

\* ------------------------------------------------------------ the adapter

VARIABLES
    oft_blocks,      \* self.oft_blocks: the stack of blocks of the file
    alpha,           \* self.alpha
    num_blocks,      \* self.num_blocks (= self.dim)
    out_dim,         \* self.out_dim
    constraint,      \* self.constraint
    block_size,      \* self.block_size
    oft_multiplier,  \* self.oft_multiplier
    orig_weight,     \* the host layer's weight, owned by the caller
    weight_dtype,    \* orig_weight.dtype
    net_multiplier,  \* the multiplier the caller has set on the network now
    call,            \* the last get_weight / calc_updown call and its outcome
    tasks,           \* per thread: the call it is in, its position and locals
    extra_pages,     \* ui_extra_networks.extra_pages
    allowed_dirs,    \* ui_extra_networks.allowed_dirs
    stored_extra_pages,  \* ui.stored_extra_pages
    written,         \* the files save_preview has written
    response,        \* the last fetch_file / save_preview call and its outcome
    tree             \* the last get_tree call and its result

vars == <<oft_blocks, alpha, num_blocks, out_dim, constraint, block_size,
          oft_multiplier, orig_weight, weight_dtype, net_multiplier, call,
          tasks, extra_pages, allowed_dirs, stored_extra_pages, written,
          response, tree>>

\* The state of the extra-networks browser (modules/ui_extra_networks.py).
browser == <<extra_pages, allowed_dirs, stored_extra_pages, written, response,
             tree>>

\* The state of the adapter, its host layer and its callers.
merger == <<oft_blocks, alpha, num_blocks, out_dim, constraint, block_size,
            oft_multiplier, orig_weight, weight_dtype, net_multiplier, call,
            tasks>>

NoResponse == [op |-> "none"]

NoTree == [op |-> "none"]

\* The module as imported (lines 18-19), with no UI built and nothing asked.
BrowserImported ==
    /\ extra_pages = <<>>
    /\ allowed_dirs = {}
    /\ stored_extra_pages = <<>>
    /\ written = {}
    /\ response = NoResponse
    /\ tree = NoTree

adapter == <<oft_blocks, alpha, num_blocks, out_dim, constraint, block_size,
             oft_multiplier>>

\* self.multiplier(): the multiplier the network carries at the time of the
\* call.
multiplier == net_multiplier

\* A sign slip in the skew-symmetrization: oft_blocks + transpose.
Symmetrize(blocks) ==
    AsSeq([b \in 1..Len(blocks) |-> MatAdd(blocks[b], Transpose(blocks[b]))])

\* block_Q = oft_blocks - oft_blocks.transpose(1, 2)
SkewSymmetrize(blocks) ==
    AsSeq([b \in 1..Len(blocks) |-> MatSub(blocks[b], Transpose(blocks[b]))])

\* torch.norm(block_Q.flatten())
Norm(block_Q) == RSqrt(SumSq(block_Q))

\* The clamp with the wrong keyword: torch.clamp(norm_Q, min=...).
ClampMin(norm_Q, max) == IF RLt(norm_Q, max) THEN max ELSE norm_Q

\* torch.clamp(norm_Q, max=self.constraint)
Clamp(norm_Q, max) == IF RLt(max, norm_Q) THEN max ELSE norm_Q

\* The rescale factor without the guard against a zero norm.
RescaleFactorNoEps(new_norm_Q, norm_Q) == RDiv(new_norm_Q, norm_Q)

\* (new_norm_Q + 1e-8) / (norm_Q + 1e-8)
RescaleFactor(new_norm_Q, norm_Q) ==
    RDiv(RAdd(new_norm_Q, Eps), RAdd(norm_Q, Eps))

\* block_Q * factor
Rescale(block_Q, factor) ==
    AsSeq([b \in 1..Len(block_Q) |-> MatScale(factor, block_Q[b])])

\* torch.eye(block_size).unsqueeze(0).repeat(num_blocks, 1, 1)
EyeRepeat(size, n) == AsSeq([b \in 1..n |-> Eye(size)])

\* An inversion that does not check for singular blocks and returns the
\* non-finite quotients.
BatchInverseUnchecked(T) ==
    [raised |-> "", val |-> AsSeq([b \in 1..Len(T) |-> Inverse(T[b])])]

\* (I - block_Q).inverse() on a stack: torch raises when a block is singular.
BatchInverse(T) ==
    IF \E b \in 1..Len(T) : Singular(T[b])
    THEN [raised |-> "LinAlgError", val |-> <<>>]
    ELSE [raised |-> "", val |-> AsSeq([b \in 1..Len(T) |-> Inverse(T[b])])]

\* The blend with its two weights exchanged.
BlendSwapped(m, R_block, I) ==
    MatAdd(MatScale(RSub(One, m), R_block), MatScale(m, I))

\* oft_multiplier * block_R + (1 - oft_multiplier) * I for one block
Blend(m, R_block, I) ==
    MatAdd(MatScale(m, R_block), MatScale(RSub(One, m), I))

\* torch.block_diag(*blocks) of a stack of equally sized square blocks
BlockDiag(blocks) ==
    LET s == IF Len(blocks) = 0 THEN 0 ELSE Rows(blocks[1])
    IN  AsMatrix([i \in 1..(s * Len(blocks)) |->
                    [j \in 1..(s * Len(blocks)) |->
                        IF (i - 1) \div s = (j - 1) \div s
                        THEN blocks[((i - 1) \div s) + 1][((i - 1) % s) + 1]
                                   [((j - 1) % s) + 1]
                        ELSE Zero]])

\* Lines 41-49 of get_weight and 55-63 of calc_updown, which are the same
\* statements: the rotation built from the stack `blocks` with the blend
\* weight m, or the error raised on the way.  block_Q is the rescaled
\* generator that enters the Cayley step, block_R the blocks before blending.
Rotation(op, blocks, m) ==
    LET n          == Len(blocks)
        block_Q0   == SkewSymmetrize(blocks)
        norm_Q     == Norm(block_Q0)
        new_norm_Q == Clamp(norm_Q, constraint)
        block_Q    == Rescale(block_Q0, RescaleFactor(new_norm_Q, norm_Q))
        I          == EyeRepeat(block_size, num_blocks)
        begun      == [op |-> op, raised |-> "", norm_Q |-> norm_Q,
                       new_norm_Q |-> new_norm_Q, block_Q |-> block_Q,
                       block_R |-> <<>>, R |-> <<>>, updown |-> <<>>,
                       output_shape |-> <<>>]
    IN  IF \E b \in 1..n : ~Broadcastable(I[b], block_Q[b])
        THEN [begun EXCEPT !.raised = "RuntimeError"]
        ELSE LET inv == BatchInverse(
                            AsSeq([b \in 1..n |-> MatSub(I[b], block_Q[b])]))
             IN  IF inv.raised # ""
                 THEN [begun EXCEPT !.raised = inv.raised]
                 ELSE LET block_R ==
                              AsSeq([b \in 1..n |->
                                        MatMul(MatAdd(I[b], block_Q[b]),
                                               inv.val[b])])
                          block_R_weighted ==
                              AsSeq([b \in 1..n |->
                                        Blend(m, block_R[b], I[b])])
                      IN  [begun EXCEPT !.block_R = block_R,
                                        !.R = BlockDiag(block_R_weighted)]

\* The dtypes a tensor of the model is held in.  The adapter file's tensors
\* are float32, whose values the model's arithmetic carries exactly;
\* float16 keeps multiples of 1/HalfPrecision only.
Dtypes == {"float32", "float16"}

BlocksDtype == "float32"

HalfPrecision == 2

\* x rounded to the nearest multiple of 1/den, a tie going to the even
\* multiple.
RoundHalfEven(x, den) ==
    LET twice == 2 * x[1] * den + x[2]
        k     == twice \div (2 * x[2])
    IN  IF twice % (2 * x[2]) = 0 /\ k % 2 = 1
        THEN Rat(k - 1, den)
        ELSE Rat(k, den)

\* One value converted to dtype.
Cast(x, dtype) ==
    IF dtype = "float16" /\ IsFinite(x) THEN RoundHalfEven(x, HalfPrecision)
    ELSE x

\* self.oft_blocks.to(orig_weight.device, dtype=orig_weight.dtype): a copy of
\* the stack with every entry converted to the weight's dtype.
To(blocks, dtype) ==
    AsSeq([b \in 1..Len(blocks) |->
        AsMatrix([i \in 1..Rows(blocks[b]) |->
            [j \in 1..Cols(blocks[b]) |-> Cast(blocks[b][i][j], dtype)]])])

\* The merge the source's comment describes, W = R * W_0: a matrix product.
MergeMatMul(w, r) ==
    IF r.raised # "" THEN r
    ELSE IF Cols(r.R) # Rows(w) THEN [r EXCEPT !.raised = "RuntimeError"]
    ELSE [r EXCEPT !.updown = MatMul(r.R, w),
                   !.output_shape = <<Rows(r.R), Cols(w)>>]

\* updown = orig_weight + R and output_shape = [R.size(0), orig_weight.size(1)]:
\* what calc_updown hands to finalize_updown, or the error the sum raises.
Merge(w, r) ==
    IF r.raised # "" THEN r
    ELSE IF ~Broadcastable(w, r.R) THEN [r EXCEPT !.raised = "RuntimeError"]
    ELSE [r EXCEPT !.updown = MatAdd(w, r.R),
                   !.output_shape = <<Rows(r.R), Cols(w)>>]

NoCall ==
    [op |-> "none", raised |-> "", norm_Q |-> Zero, new_norm_Q |-> Zero,
     block_Q |-> <<>>, block_R |-> <<>>, R |-> <<>>, updown |-> <<>>,
     output_shape |-> <<>>]

\* The threads that call into one adapter at the same time.
Threads == {1, 2}

\* A thread outside any call: pc is its position, weight the tensor it passed
\* to calc_updown, I and out the locals of the call (out in the layout of
\* `call`).
IdleTask == [pc |-> "idle", weight |-> <<>>, I |-> <<>>, out |-> NoCall]

NoTasks == [t \in Threads |-> IdleTask]

\* The tensor thread t passes to calc_updown: its own tensor of the layer
\* weight's shape, with values no other thread's tensor has.
TaskWeight(t) == LayerWeight(Rows(orig_weight), Cols(orig_weight), t)

\* __init__: the adapter as constructed on a Linear layer with at least one
\* output feature per block (block_size >= 1), the layer's weight being held
\* in the dtype of the adapter file.
Init ==
    \E nb \in NumBlocks, b \in BlockSizes, a \in Alphas, o \in OutDims,
       i \in InDims, s \in WeightSeeds, m \in Multipliers :
      \E blocks \in [1..nb -> BlockFamily(b)] :
        /\ nb <= o
        /\ oft_blocks = blocks
        /\ alpha = a
        /\ num_blocks = Len(blocks)
        /\ orig_weight = LayerWeight(o, i, s)
        /\ weight_dtype = BlocksDtype
        /\ out_dim = o
        /\ constraint = RMul(a, Num(o))
        /\ block_size = o \div Len(blocks)
        /\ net_multiplier = m
        /\ oft_multiplier = multiplier
        /\ call = NoCall
        /\ tasks = NoTasks
        /\ BrowserImported

\* Entries of a float32 adapter file: 0 and 1, which float16 holds exactly,
\* and 1/(2*HalfPrecision), which it does not.
FineEntries == {Zero, Rat(1, 2 * HalfPrecision), One}

\* b x b blocks with u above and on the diagonal and l below it.
FineBlockFamily(b) ==
    {AsMatrix([i \in 1..b |-> [j \in 1..b |-> IF i > j THEN l ELSE u]]) :
        u \in FineEntries, l \in {Zero, One}}

\* __init__ for an adapter whose blocks tile the output dimension of a
\* square Linear layer, the layer's weight being held in float32 or in
\* float16.
InitMixed ==
    \E nb \in NumBlocks, b \in BlockSizes, a \in Alphas, s \in WeightSeeds,
       m \in Multipliers, dt \in Dtypes :
      \E blocks \in [1..nb -> FineBlockFamily(b)] :
        /\ oft_blocks = blocks
        /\ alpha = a
        /\ num_blocks = Len(blocks)
        /\ orig_weight = LayerWeight(nb * b, nb * b, s)
        /\ weight_dtype = dt
        /\ out_dim = nb * b
        /\ constraint = RMul(a, Num(nb * b))
        /\ block_size = (nb * b) \div Len(blocks)
        /\ net_multiplier = m
        /\ oft_multiplier = multiplier
        /\ call = NoCall
        /\ tasks = NoTasks
        /\ BrowserImported

\* The caller moves the network's multiplier (a UI slider).
set_multiplier ==
    \E m \in Multipliers :
        /\ m # net_multiplier
        /\ net_multiplier' = m
        /\ UNCHANGED <<adapter, orig_weight, weight_dtype, call, tasks,
                   browser>>

\* get_weight deriving the block size and the constraint again, from the
\* blocks it reads, on every call.
get_weight_rederive ==
    /\ call' = Rotation("get_weight", oft_blocks, oft_multiplier)
    /\ block_size' = Rows(oft_blocks[1])
    /\ constraint' = RMul(alpha, Num(num_blocks * Rows(oft_blocks[1])))
    /\ UNCHANGED <<oft_blocks, alpha, num_blocks, out_dim, oft_multiplier,
                   orig_weight, weight_dtype, net_multiplier, tasks,
                   browser>>

get_weight ==
    /\ call' = Rotation("get_weight", oft_blocks, oft_multiplier)
    /\ UNCHANGED <<adapter, orig_weight, weight_dtype, net_multiplier, tasks,
                   browser>>

\* calc_updown adding the rotation into the caller's tensor in place
\* (orig_weight += R).
calc_updown_inplace ==
    /\ call' = Merge(orig_weight,
                     Rotation("calc_updown", To(oft_blocks, weight_dtype),
                              oft_multiplier))
    /\ orig_weight' =
           IF call'.raised = "" /\ Shape(call'.updown) = Shape(orig_weight)
           THEN call'.updown ELSE orig_weight
    /\ UNCHANGED <<adapter, weight_dtype, net_multiplier, tasks,
                   browser>>

calc_updown ==
    /\ call' = Merge(orig_weight,
                     Rotation("calc_updown", To(oft_blocks, weight_dtype),
                              oft_multiplier))
    /\ UNCHANGED <<adapter, orig_weight, weight_dtype, net_multiplier, tasks,
                   browser>>

Next == set_multiplier \/ get_weight \/ calc_updown

Spec == Init /\ [][Next]_vars

SpecMixed == InitMixed /\ [][Next]_vars

\* ------------------------------------------------- calls in several threads

\* __init__ on a square Linear layer, for a file whose blocks are all the
\* same and a multiplier strictly between 0 and 1, before any thread has
\* called.
InitConcurrent ==
    \E nb \in NumBlocks, b \in BlockSizes, a \in Alphas, o \in OutDims,
       m \in Multipliers \ {Zero, One} :
      \E block \in BlockFamily(b) : \E blocks \in [1..nb -> {block}] :
        /\ nb <= o
        /\ oft_blocks = blocks
        /\ alpha = a
        /\ num_blocks = Len(blocks)
        /\ orig_weight = LayerWeight(o, o, 1)
        /\ weight_dtype = BlocksDtype
        /\ out_dim = o
        /\ constraint = RMul(a, Num(o))
        /\ block_size = o \div Len(blocks)
        /\ net_multiplier = m
        /\ oft_multiplier = multiplier
        /\ call = NoCall
        /\ tasks = NoTasks
        /\ BrowserImported

\* The first statement of a call that subtracts the transpose in place
\* (self.oft_blocks.sub_(...)), leaving the result in the adapter.
task_call_inplace(t) ==
    /\ tasks[t].pc = "idle"
    /\ \E op \in {"get_weight", "calc_updown"} :
          /\ oft_blocks' = SkewSymmetrize(
                  IF op = "calc_updown" THEN To(oft_blocks, weight_dtype)
                  ELSE oft_blocks)
          /\ tasks' = [tasks EXCEPT ![t] =
                 [pc |-> "norm",
                  weight |-> IF op = "calc_updown" THEN TaskWeight(t) ELSE <<>>,
                  I |-> <<>>,
                  out |-> [NoCall EXCEPT !.op = op, !.block_Q = oft_blocks']]]
    /\ UNCHANGED <<alpha, num_blocks, out_dim, constraint, block_size,
                   oft_multiplier, orig_weight, weight_dtype, net_multiplier,
                   call,
                   browser>>

\* Thread t enters get_weight or calc_updown and runs line 41, or lines 54
\* and 55: it reads self.oft_blocks.
task_call(t) ==
    /\ tasks[t].pc = "idle"
    /\ \E op \in {"get_weight", "calc_updown"} :
          tasks' = [tasks EXCEPT ![t] =
              [pc |-> "norm",
               weight |-> IF op = "calc_updown" THEN TaskWeight(t) ELSE <<>>,
               I |-> <<>>,
               out |-> [NoCall EXCEPT
                          !.op = op,
                          !.block_Q = SkewSymmetrize(
                              IF op = "calc_updown"
                              THEN To(oft_blocks, weight_dtype)
                              ELSE oft_blocks)]]]
    /\ UNCHANGED <<adapter, orig_weight, weight_dtype, net_multiplier, call,
                   browser>>

\* Lines 42-44 (56-58): the norm, its clamp, which reads self.constraint,
\* and the rescaling.
task_norm(t) ==
    /\ tasks[t].pc = "norm"
    /\ LET norm_Q     == Norm(tasks[t].out.block_Q)
           new_norm_Q == Clamp(norm_Q, constraint)
       IN  tasks' = [tasks EXCEPT
               ![t].pc = "cayley",
               ![t].out.norm_Q = norm_Q,
               ![t].out.new_norm_Q = new_norm_Q,
               ![t].out.block_Q =
                   Rescale(tasks[t].out.block_Q,
                           RescaleFactor(new_norm_Q, norm_Q))]
    /\ UNCHANGED <<adapter, orig_weight, weight_dtype, net_multiplier, call,
                   browser>>

\* Lines 45-46 (59-60): the identities, which read self.block_size and
\* self.num_blocks, and the Cayley transform; an error ends the call.
task_cayley(t) ==
    /\ tasks[t].pc = "cayley"
    /\ LET block_Q == tasks[t].out.block_Q
           n       == Len(block_Q)
           I       == EyeRepeat(block_size, num_blocks)
       IN  IF \E b \in 1..n : ~Broadcastable(I[b], block_Q[b])
           THEN tasks' = [tasks EXCEPT ![t].pc = "done", ![t].I = I,
                                       ![t].out.raised = "RuntimeError"]
           ELSE LET inv == BatchInverse(
                               AsSeq([b \in 1..n |->
                                         MatSub(I[b], block_Q[b])]))
                IN  IF inv.raised # ""
                    THEN tasks' = [tasks EXCEPT ![t].pc = "done", ![t].I = I,
                                                ![t].out.raised = inv.raised]
                    ELSE tasks' = [tasks EXCEPT
                             ![t].pc = "blend",
                             ![t].I = I,
                             ![t].out.block_R =
                                 AsSeq([b \in 1..n |->
                                    MatMul(MatAdd(I[b], block_Q[b]),
                                           inv.val[b])])]
    /\ UNCHANGED <<adapter, orig_weight, weight_dtype, net_multiplier, call,
                   browser>>

\* Lines 48-49 (62-63): the blend, which reads self.oft_multiplier, and the
\* block-diagonal assembly; get_weight returns here (line 51).
task_blend(t) ==
    /\ tasks[t].pc = "blend"
    /\ tasks' = [tasks EXCEPT
           ![t].pc = IF tasks[t].out.op = "get_weight" THEN "done" ELSE "merge",
           ![t].out.R =
               BlockDiag(AsSeq([b \in 1..Len(tasks[t].out.block_R) |->
                   Blend(oft_multiplier, tasks[t].out.block_R[b],
                         tasks[t].I[b])]))]
    /\ UNCHANGED <<adapter, orig_weight, weight_dtype, net_multiplier, call,
                   browser>>

\* Lines 66-67 of calc_updown: the sum with the thread's own tensor.
task_merge(t) ==
    /\ tasks[t].pc = "merge"
    /\ tasks' = [tasks EXCEPT ![t].pc = "done",
                              ![t].out = Merge(tasks[t].weight, tasks[t].out)]
    /\ UNCHANGED <<adapter, orig_weight, weight_dtype, net_multiplier, call,
                   browser>>

NextConcurrent ==
    \/ set_multiplier
    \/ \E t \in Threads :
          \/ task_call(t)
          \/ task_norm(t)
          \/ task_cayley(t)
          \/ task_blend(t)
          \/ task_merge(t)

SpecConcurrent == InitConcurrent /\ [][NextConcurrent]_vars

\* ------------------------------------------- the extra-networks browser

\* A path is a sequence of components, a component a sequence of
\* characters; an absolute path starts with the component Root.
Root == <<"/">>

Up == <<".", ".">>

Here == <<".">>

NameD == <<"d">>

NameDX == <<"d", "x">>

NameE == <<"e">>

NameW == <<"w">>

FileA == <<"a", ".", "p", "n", "g">>

FileB == <<"b", ".", "P", "N", "G">>

FileC == <<"c", ".", "t", "x", "t">>

FileN == <<"n", ".", "p", "n", "g">>

FileS == <<"s", ".", "p", "n", "g">>

\* The process's working directory, /w.
Cwd == <<Root, NameW>>

\* The directories pages register: /d, its sibling /dx, and e (relative to
\* the working directory).
DirD == <<Root, NameD>>

DirDX == <<Root, NameDX>>

DirE == <<NameE>>

\* The files on disk before any preview is saved (by their location).
Files ==
    { <<Root, NameD, FileA>>, <<Root, NameD, FileB>>, <<Root, NameD, FileC>>,
      <<Root, NameDX, FileA>>, <<Root, NameW, NameE, FileA>>,
      <<Root, FileS>> }

\* The directories on disk.
Directories ==
    { <<Root>>, <<Root, NameD>>, <<Root, NameDX>>, <<Root, NameW>>,
      <<Root, NameW, NameE>> }

IsAbs(p) == Len(p) > 0 /\ p[1] = Root

\* Path(p).absolute(), and os.path.join(os.getcwd(), p): the working
\* directory is put in front of a relative path; ".." is kept.
Absolute(p) == IF IsAbs(p) THEN p ELSE Cwd \o p

\* os.path.normpath of an absolute path, component by component: "." is
\* dropped, ".." drops the component before it (none at the root).
RECURSIVE Collapse(_, _)
Collapse(parts, acc) ==
    IF parts = <<>> THEN acc
    ELSE IF parts[1] = Here THEN Collapse(Tail(parts), acc)
    ELSE IF parts[1] = Up
         THEN Collapse(Tail(parts),
                       IF Len(acc) > 1 THEN SubSeq(acc, 1, Len(acc) - 1)
                       ELSE acc)
    ELSE Collapse(Tail(parts), Append(acc, parts[1]))

\* os.path.abspath(p)
AbsPath(p) == Collapse(Tail(Absolute(p)), <<Root>>)

\* Every ".." of the absolute path p is taken from an existing directory, as
\* the file system demands when it walks the path.
RECURSIVE Walkable(_, _)
Walkable(parts, acc) ==
    IF parts = <<>> THEN TRUE
    ELSE IF parts[1] = Here THEN Walkable(Tail(parts), acc)
    ELSE IF parts[1] = Up
         THEN /\ acc \in Directories
              /\ Walkable(Tail(parts),
                          IF Len(acc) > 1 THEN SubSeq(acc, 1, Len(acc) - 1)
                          ELSE acc)
    ELSE Walkable(Tail(parts), Append(acc, parts[1]))

\* os.path.isfile(p), given the files saved so far.
IsFile(p, saved) ==
    /\ AbsPath(p) \in Files \cup saved
    /\ Walkable(Tail(Absolute(p)), <<Root>>)

\* Path(p).parents of an absolute path: its proper prefixes.
Parents(p) == {SubSeq(p, 1, k) : k \in 1..(Len(p) - 1)}

\* The characters of an absolute path, "/" between the components.
RECURSIVE JoinFrom(_, _)
JoinFrom(p, k) ==
    IF k > Len(p) THEN <<>>
    ELSE (IF k > 2 THEN <<"/">> ELSE <<>>) \o p[k] \o JoinFrom(p, k + 1)

PathStr(p) == <<"/">> \o JoinFrom(p, 2)

\* str.startswith
StartsWith(s, prefix) ==
    /\ Len(prefix) <= Len(s)
    /\ SubSeq(s, 1, Len(prefix)) = prefix

\* os.path.basename of a path without a trailing separator
Basename(p) == IF Len(p) = 0 \/ p = <<Root>> THEN <<>> ELSE p[Len(p)]

\* str.lower on the characters of the model
LowerChar(c) ==
    IF c = "P" THEN "p" ELSE IF c = "N" THEN "n" ELSE IF c = "G" THEN "g"
    ELSE c

Lower(s) == AsSeq([i \in 1..Len(s) |-> LowerChar(s[i])])

\* os.path.splitext(p)[1]: from the last dot of the last component on, unless
\* only dots come before it.
SplitExt(p) ==
    LET name == Basename(p)
        dots == {i \in 1..Len(name) : name[i] = "."}
        last == CHOOSE i \in dots : \A j \in dots : j <= i
    IN  IF dots = {} THEN <<>>
        ELSE IF \A j \in 1..(last - 1) : name[j] = "." THEN <<>>
        ELSE SubSeq(name, last, Len(name))

default_allowed_preview_extensions ==
    { <<"p", "n", "g">>, <<"j", "p", "g">>, <<"j", "p", "e", "g">>,
      <<"w", "e", "b", "p">>, <<"g", "i", "f">> }

\* shared.opts.samples_format
samples_format == <<"p", "n", "g">>

allowed_preview_extensions ==
    default_allowed_preview_extensions \cup {samples_format}

\* The pages extensions register, each with the list its
\* allowed_directories_for_previews() returns.
Pages ==
    { [name |-> "lora", dirs |-> <<DirD>>],
      [name |-> "hypernetworks", dirs |-> <<DirE>>] }

MaxPages == 2

\* The file names a client asks fetch_file for.
FetchNames ==
    { <<Root, NameD, FileA>>, <<Root, NameD, FileB>>, <<Root, NameD, FileC>>,
      <<Root, NameD, FileN>>, <<Root, NameD>>, <<Root, NameDX, FileA>>,
      <<NameE, FileA>>, <<Root, FileS>>, <<Root, NameD, Up, FileS>>,
      <<Root, NameD, Up, NameDX, FileA>> }

\* The file names the UI asks save_preview to write.
PreviewNames ==
    { <<Root, NameD, FileN>>, <<Root, NameDX, FileN>>, <<NameE, FileN>>,
      <<Root, FileN>>, <<Root, NameD, Up, FileN>> }

\* The lengths of the gallery passed to save_preview.
GallerySizes == {0, 1}

Range(q) == {q[k] : k \in DOMAIN q}

\* set(sum([x.allowed_directories_for_previews() for x in pages], []))
DirsOf(pages) == UNION {Range(pages[k].dirs) : k \in DOMAIN pages}

\* No OFT network is loaded while the browser is exercised.
NoAdapter ==
    /\ oft_blocks = <<>>
    /\ alpha = Zero
    /\ num_blocks = 0
    /\ out_dim = 0
    /\ constraint = Zero
    /\ block_size = 0
    /\ oft_multiplier = Zero
    /\ orig_weight = <<>>
    /\ weight_dtype = BlocksDtype
    /\ net_multiplier = Zero
    /\ call = NoCall
    /\ tasks = NoTasks

InitBrowser == NoAdapter /\ BrowserImported

\* register_page (lines 84-89)
register_page(page) ==
    /\ Len(extra_pages) < MaxPages
    /\ extra_pages' = Append(extra_pages, page)
    /\ allowed_dirs' = DirsOf(extra_pages')
    /\ UNCHANGED <<stored_extra_pages, written, response, tree, merger>>

\* initialize (lines 473-474): extra_pages.clear()
initialize ==
    /\ extra_pages' = <<>>
    /\ UNCHANGED <<allowed_dirs, stored_extra_pages, written, response, tree,
                   merger>>

\* pages_in_preferred_order: with ui_extra_networks_tab_reorder at its
\* default "" every page scores 0 and the sort keeps the pages in the order
\* of their index.
pages_in_preferred_order(pages) == pages

\* create_ui (line 524): the UI keeps its own copy of the list of pages.
create_ui ==
    /\ stored_extra_pages' = pages_in_preferred_order(extra_pages)
    /\ UNCHANGED <<extra_pages, allowed_dirs, written, response, tree, merger>>

\* Line 98: any(Path(x).absolute() in Path(filename).absolute().parents ...)
InAllowedDir(filename, dirs) ==
    \E x \in dirs : Absolute(x) \in Parents(Absolute(filename))

\* Line 101: the lower-cased extension without its dot.
ExtOf(filename) ==
    LET e == Lower(SplitExt(filename))
    IN  IF e = <<>> THEN <<>> ELSE Tail(e)

\* fetch_file (lines 92-106): what the call returns or raises; served is the
\* location of the file a FileResponse sends.
FetchOutcome(filename, dirs, saved) ==
    IF ~IsFile(filename, saved)
    THEN [kind |-> "HTTPException", detail |-> "404", served |-> <<>>]
    ELSE IF ~InAllowedDir(filename, dirs)
    THEN [kind |-> "ValueError", detail |-> "directory", served |-> <<>>]
    ELSE IF ExtOf(filename) \notin allowed_preview_extensions
    THEN [kind |-> "ValueError", detail |-> "extension", served |-> <<>>]
    ELSE [kind |-> "FileResponse", detail |-> "",
          served |-> AbsPath(filename)]

fetch_file ==
    \E filename \in FetchNames :
        /\ response' = [op |-> "fetch_file", filename |-> filename,
                        dirs |-> allowed_dirs,
                        out |-> FetchOutcome(filename, allowed_dirs, written)]
        /\ UNCHANGED <<extra_pages, allowed_dirs, stored_extra_pages, written,
                       tree, merger>>

\* path_is_parent (lines 615-619)
path_is_parent(parent_path, child_path) ==
    StartsWith(PathStr(AbsPath(child_path)), PathStr(AbsPath(parent_path)))

\* save_preview (lines 623-648) for a gallery of n readable images: the
\* outcome, and the file written.
save_preview ==
    \E n \in GallerySizes, filename \in PreviewNames :
        LET is_allowed ==
                \E k \in DOMAIN stored_extra_pages :
                    \E x \in Range(stored_extra_pages[k].dirs) :
                        path_is_parent(x, filename)
            kind == IF n = 0 THEN "empty gallery"
                    ELSE IF ~is_allowed THEN "AssertionError"
                    ELSE "saved"
        IN  /\ response' = [op |-> "save_preview", filename |-> filename,
                            dirs |-> DirsOf(stored_extra_pages),
                            images |-> n, kind |-> kind,
                            before |-> written]
            /\ written' = IF kind = "saved"
                          THEN written \cup {AbsPath(filename)}
                          ELSE written
            /\ UNCHANGED <<extra_pages, allowed_dirs, stored_extra_pages, tree,
                           merger>>

NextBrowser ==
    \/ \E page \in Pages : register_page(page)
    \/ initialize
    \/ create_ui
    \/ fetch_file
    \/ save_preview

SpecBrowser == InitBrowser /\ [][NextBrowser]_vars

\* ------------------------------------------------------------- get_tree

\* The directories and files on the disk get_tree walks: /a/m holds the
\* file x, the directory s with the file y, the empty directory k and the
\* directory p whose only content is i/z; /b/m holds the file w; /c is
\* empty.
TreeDirs ==
    { <<Root>>, <<Root, <<"a">>>>, <<Root, <<"a">>, <<"m">>>>,
      <<Root, <<"a">>, <<"m">>, <<"s">>>>,
      <<Root, <<"a">>, <<"m">>, <<"k">>>>,
      <<Root, <<"a">>, <<"m">>, <<"p">>>>,
      <<Root, <<"a">>, <<"m">>, <<"p">>, <<"i">>>>,
      <<Root, <<"b">>>>, <<Root, <<"b">>, <<"m">>>>,
      <<Root, <<"c">>>> }

TreeFiles ==
    { <<Root, <<"a">>, <<"m">>, <<"x">>>>,
      <<Root, <<"a">>, <<"m">>, <<"s">>, <<"y">>>>,
      <<Root, <<"a">>, <<"m">>, <<"p">>, <<"i">>, <<"z">>>>,
      <<Root, <<"b">>, <<"m">>, <<"w">>>> }

\* The directories a page may name as roots; /q does not exist.
TreeRoots ==
    { <<Root, <<"a">>, <<"m">>>>, <<Root, <<"b">>, <<"m">>>>,
      <<Root, <<"c">>>>, <<Root, <<"q">>>> }

MaxRoots == 2

\* The lists of roots passed as `paths`.
RootLists == UNION {[1..n -> TreeRoots] : n \in 1..MaxRoots}

\* os.path.isdir
IsDir(path) == path \in TreeDirs

\* [os.path.join(path, x) for x in os.listdir(path)]
ListDir(path) ==
    {q \in TreeDirs \cup TreeFiles :
        Len(q) = Len(path) + 1 /\ SubSeq(q, 1, Len(path)) = path}

\* A dict is the set of its <<key, value>> pairs; a value is an item or a
\* dict.
EmptyDict == [kind |-> "dict", entries |-> {}]

Dict(entries) == [kind |-> "dict", entries |-> entries]

\* items[path]
Item(path) == [kind |-> "item", path |-> path]

\* d[key] = value
Put(d, key, value) == {e \in d : e[1] # key} \cup {<<key, value>>}

\* d[key], for a key of d
Get(d, key) == (CHOOSE e \in d : e[1] = key)[2]

HasKey(d, key) == \E e \in d : e[1] = key

\* _get_tree (lines 51-68) for paths with pairwise distinct basenames (the
\* joined entries of one directory, or a single root): the entries of _res.
RECURSIVE GetTreeInner(_, _)
GetTreeInner(paths, items) ==
    LET dir_tree(path) == GetTreeInner(ListDir(path), items)
    IN  { <<Basename(path), Dict(dir_tree(path))>> :
            path \in {q \in paths : /\ IsDir(q)
                                    /\ ListDir(q) # {}
                                    /\ dir_tree(q) # {}} }
        \cup
        { <<Basename(path), Item(path)>> :
            path \in {q \in paths : ~IsDir(q) /\ q \in items} }

\* The loop of lines 75-80 from root number k on, res being the dict so far.
RECURSIVE GetTreeRoots(_, _, _, _)
GetTreeRoots(paths, items, k, res) ==
    IF k > Len(paths) THEN res
    ELSE LET short_path == Basename(paths[k])
             t          == GetTreeInner({paths[k]}, items)
             value      == IF t # {} THEN Get(t, Basename(paths[k]))
                           ELSE Dict(t)
         IN  GetTreeRoots(paths, items, k + 1, Put(res, short_path, value))

\* get_tree(paths, items) (lines 37-82): the entries of the dict returned.
get_tree(paths, items) == GetTreeRoots(paths, items, 1, {})

InitTree == NoAdapter /\ BrowserImported

\* A page builds its tree view: get_tree is called with a list of roots and
\* a map whose keys are the registered files.
build_tree ==
    \E paths \in RootLists, items \in SUBSET TreeFiles :
        /\ tree' = [op |-> "get_tree", paths |-> paths, items |-> items,
                    res |-> get_tree(paths, items)]
        /\ UNCHANGED <<extra_pages, allowed_dirs, stored_extra_pages, written,
                       response, merger>>

NextTree == build_tree

SpecTree == InitTree /\ [][NextTree]_vars

\* ------------------------------------------------------------ properties

\* The file's blocks have the size the adapter derived, and the blocks tile
\* the layer's output dimension: num_blocks * block_size = out_dim.
ValidShapes ==
    /\ num_blocks * block_size = out_dim
    /\ \A b \in 1..num_blocks :
          Shape(oft_blocks[b]) = <<block_size, block_size>>

Called == call.op # "none"

AllFinite(M) == \A i \in 1..Rows(M) : \A j \in 1..Cols(M) : IsFinite(M[i][j])

Square(x) == RMul(x, x)

C2_MergeKeepsWeightShape ==
    (call.op = "calc_updown" /\ ValidShapes) =>
        /\ Shape(call.R) = <<out_dim, out_dim>>
        /\ call.raised = ""
        /\ Shape(call.updown) = Shape(orig_weight)
        /\ call.output_shape = <<out_dim, Cols(orig_weight)>>

\* C3: with valid shapes and a blend weight of 0 the rotation built by
\* get_weight and by calc_updown is the out_dim x out_dim identity.
C3_ZeroMultiplierIsIdentity ==
    (Called /\ ValidShapes /\ oft_multiplier = Zero) => call.R = Eye(out_dim)

C3_Witness ==
    /\ Called /\ ValidShapes /\ oft_multiplier = Zero
    /\ out_dim = 4 /\ block_size = 2
    /\ call.block_R[1] # Eye(2) /\ call.block_R[2] # Eye(2)

\* C4 (as claimed): every call builds its rotation with the multiplier the
\* caller has in effect at that call.
C4_CallUsesMultiplierInEffect ==
    [][(ValidShapes /\ (get_weight \/ calc_updown)) =>
          call'.R = Rotation(call'.op, oft_blocks, multiplier).R]_vars

\* One rounding unit of the computed norm.
Ulp == Rat(1, NormPrecision)

\* C5: the joint Frobenius norm over all blocks of the rescaled Q that
\* enters the Cayley step is at most constraint + eps (within one rounding
\* unit of the computed norm, and exactly when the computed norm is exact);
\* when the raw norm is at or below the constraint, Q is left unscaled.
C5_NormClamped ==
    Called =>
        /\ RLe(SumSq(call.block_Q), Square(RAdd(RAdd(constraint, Eps), Ulp)))
        /\ (Square(call.norm_Q) = SumSq(SkewSymmetrize(oft_blocks)) =>
              RLe(SumSq(call.block_Q), Square(RAdd(constraint, Eps))))
        /\ (RLe(call.norm_Q, constraint) =>
              call.block_Q = SkewSymmetrize(oft_blocks))

C5_Witness ==
    /\ Called /\ ValidShapes /\ num_blocks = 2 /\ block_size = 2
    /\ RLt(constraint, call.norm_Q)
    /\ call.block_Q[1] # MatScale(Zero, call.block_Q[1])
    /\ call.block_Q[2] # MatScale(Zero, call.block_Q[2])
    /\ call.block_Q # SkewSymmetrize(oft_blocks)

\* C6: with valid shapes every block of block_R, before blending, is
\* orthogonal: R_block times its transpose is the identity, whatever the
\* multiplier.
C6_CayleyOrthogonal ==
    (Called /\ ValidShapes) =>
        /\ Len(call.block_R) = num_blocks
        /\ \A b \in 1..num_blocks :
              MatMul(call.block_R[b], Transpose(call.block_R[b]))
                  = Eye(block_size)

C6_Witness ==
    /\ Called /\ ValidShapes /\ block_size = 2
    /\ call.block_R[1] # Eye(2)
    /\ RLt(constraint, call.norm_Q)
    /\ oft_multiplier = Rat(1, 2)

AllZero(blocks) ==
    \A b \in 1..Len(blocks) : blocks[b] = MatScale(Zero, blocks[b])

\* C7: with valid shapes and all-zero block parameters the rotation is the
\* out_dim x out_dim identity for every alpha and every multiplier.
C7_ZeroAdapterIsIdentity ==
    (Called /\ ValidShapes /\ AllZero(oft_blocks)) => call.R = Eye(out_dim)

C7_Witness ==
    /\ Called /\ ValidShapes /\ AllZero(oft_blocks)
    /\ out_dim = 4 /\ block_size = 2 /\ oft_multiplier = Rat(1, 2)
    /\ call.R = Eye(4)

\* C8 (as claimed): a merge that does not raise was built from blocks that
\* tile out_dim and from a rotation of size out_dim x out_dim.
C8_MismatchRaises ==
    (call.op = "calc_updown" /\ call.raised = "") =>
        /\ num_blocks * block_size = out_dim
        /\ Shape(call.R) = <<out_dim, out_dim>>

\* C9: when I - Q_block is singular for some block the call ends in the
\* error of the inversion and returns neither a rotation nor a merged
\* weight; a call that returns a rotation returns finite entries only.
C9_SingularRaises ==
    Called =>
        /\ ( ( /\ \A b \in 1..num_blocks :
                    Broadcastable(Eye(block_size), call.block_Q[b])
               /\ \E b \in 1..num_blocks :
                    Singular(MatSub(Eye(block_size), call.block_Q[b])) )
             => ( /\ call.raised = "LinAlgError"
                  /\ call.R = <<>>
                  /\ call.updown = <<>> ) )
        /\ (call.raised = "" => AllFinite(call.R) /\ AllFinite(call.updown))

C9_Witness ==
    /\ call.op = "calc_updown"
    /\ call.raised = "LinAlgError"
    /\ \E b \in 1..num_blocks :
          Singular(MatSub(Eye(block_size), call.block_Q[b]))

\* C10: no step changes the stored block parameters, alpha or the caller's
\* base weight: get_weight and calc_updown leave their inputs as they were.
C10_InputsUnchanged ==
    [][/\ oft_blocks' = oft_blocks
       /\ alpha' = alpha
       /\ orig_weight' = orig_weight]_vars

C10_Witness ==
    /\ call.op = "calc_updown" /\ call.raised = ""
    /\ call.updown # orig_weight
    /\ Shape(call.updown) = Shape(orig_weight)

\* C11: constraint = alpha * out_dim and block_size = out_dim // num_blocks
\* hold from construction on, and no step (get_weight, calc_updown, a move of
\* the multiplier) changes constraint, block_size or num_blocks.
C11_DerivedOnce ==
    [][/\ constraint' = constraint
       /\ block_size' = block_size
       /\ num_blocks' = num_blocks
       /\ constraint' = RMul(alpha', Num(out_dim'))
       /\ block_size' = out_dim' \div num_blocks']_vars

C11_Witness ==
    /\ Called /\ call.raised = ""
    /\ constraint = RMul(alpha, Num(out_dim))
    /\ block_size = out_dim \div num_blocks
    /\ block_size # Rows(oft_blocks[1])
    /\ num_blocks * block_size # out_dim

Alone(t) ==
    IF tasks[t].out.op = "get_weight"
    THEN Rotation("get_weight", oft_blocks, oft_multiplier)
    ELSE Merge(tasks[t].weight,
               Rotation("calc_updown", To(oft_blocks, weight_dtype),
                        oft_multiplier))

\* C13: however the statements of the threads' calls interleave, with each
\* other and with moves of the multiplier, a call that has ended has
\* returned (or raised) exactly what the same call returns when run alone,
\* and the adapter's fields are what __init__ set.
C13_InterleavingsAgree ==
    \A t \in Threads :
        tasks[t].pc = "done" => tasks[t].out = Alone(t)

C13_Witness ==
    /\ tasks[1].pc = "done" /\ tasks[2].pc = "done"
    /\ tasks[1].out.op = "calc_updown" /\ tasks[2].out.op = "calc_updown"
    /\ tasks[1].out.raised = "" /\ tasks[2].out.raised = ""
    /\ tasks[1].out.updown # tasks[2].out.updown
    /\ tasks[1].out.R # Eye(out_dim)
    /\ net_multiplier # oft_multiplier

\* Some directory of dirs is a proper ancestor of the place the file is at
\* (its absolute path with "." and ".." resolved).
InAllowedDirResolved(filename, dirs) ==
    \E x \in dirs : AbsPath(x) \in Parents(AbsPath(filename))

\* C14 (as claimed): fetch_file returns a file response exactly when the
\* name is an existing file, some directory of allowed_dirs is a proper
\* ancestor of the file's absolute path, and the lower-cased extension is an
\* allowed preview extension; a missing file is a 404 whatever else holds,
\* and every other refusal is a ValueError that serves nothing.
C14_FetchOnlyFromAllowedDirs ==
    (response.op = "fetch_file") =>
        LET isfile  == IsFile(response.filename, written)
            inside  == InAllowedDirResolved(response.filename, response.dirs)
            allowed == ExtOf(response.filename) \in allowed_preview_extensions
        IN  /\ (response.out.kind = "FileResponse")
                  <=> (isfile /\ inside /\ allowed)
            /\ (~isfile =>
                  response.out.kind = "HTTPException" /\
                  response.out.detail = "404")
            /\ ((isfile /\ ~(inside /\ allowed)) =>
                  response.out.kind = "ValueError")
            /\ (response.out.kind # "FileResponse" =>
                  response.out.served = <<>>)

\* C15 (as claimed): save_preview writes filename only when the gallery is
\* not empty and filename lies inside a directory of a stored page; in
\* every other case (a sibling directory whose name merely starts with an
\* allowed directory's name included) nothing is written.
C15_PreviewOnlyInsideAllowedDirs ==
    (response.op = "save_preview") =>
        /\ (response.kind = "saved" =>
              /\ response.images > 0
              /\ \E x \in response.dirs :
                    AbsPath(x) \in Parents(AbsPath(response.filename)))
        /\ (response.kind # "saved" => written = response.before)

\* C16 (as claimed): allowed_dirs is the union of the directories of
\* exactly the pages now in extra_pages.
C16_AllowedDirsFollowPages ==
    allowed_dirs = DirsOf(extra_pages)

\* The value the tree holds for the file or directory `path` below the root
\* `root`: found by descending from the root's key one component at a time;
\* [kind |-> "absent"] when a key on the way is missing.
RECURSIVE Descend(_, _, _)
Descend(value, path, k) ==
    IF k > Len(path) THEN value
    ELSE IF value.kind # "dict" \/ ~HasKey(value.entries, path[k])
    THEN [kind |-> "absent"]
    ELSE Descend(Get(value.entries, path[k]), path, k + 1)

Shown(res, root, path) ==
    IF ~HasKey(res, Basename(root)) THEN [kind |-> "absent"]
    ELSE Descend(Get(res, Basename(root)), path, Len(root) + 1)

Below(root, path) ==
    Len(path) > Len(root) /\ SubSeq(path, 1, Len(root)) = root

\* C17 (as claimed): for every list of roots and every items map the result
\* has a key for every root, an empty dict under it when the root holds no
\* registered file; a file below a root is shown exactly when it is a key
\* of items; and no directory below a root is shown with an empty dict.
C17_TreeShowsRegisteredFiles ==
    (tree.op = "get_tree") =>
        \A k \in DOMAIN tree.paths :
            LET root == tree.paths[k]
            IN  /\ HasKey(tree.res, Basename(root))
                /\ ((\A f \in tree.items : ~Below(root, f)) =>
                      Get(tree.res, Basename(root)) = EmptyDict)
                /\ \A f \in TreeFiles :
                      Below(root, f) =>
                          ((f \in tree.items)
                             <=> Shown(tree.res, root, f) = Item(f))
                /\ \A d \in TreeDirs :
                      Below(root, d) =>
                          Shown(tree.res, root, d) # EmptyDict

====
